---- MODULE Spec2Model ----
(***************************************************************************)
(* Tuple and hidden-prefix combinators of codecs-data-structures and the   *)
(* base-X string codec of codecs-strings, as state machines over a codec   *)
(* constructed once and then called any number of times.                   *)
(***************************************************************************)
EXTENDS Integers, Sequences, FiniteSets, TLC

\* ------------------------------------------------------------------ bounds
\* Largest number of item codecs of a tuple.
MaxItems == 2
\* Largest number of hidden prefixes of a hidden-prefix codec.
MaxPrefixes == 2
\* Length of the caller-supplied buffer of a direct write call.
WriteBufLen == 8
\* Largest number of calls made on one codec.
MaxCalls == 2

\* ------------------------------------------------------------------ values
\* A JavaScript value: a number, a string (its UTF-8 bytes), an array or
\* undefined. One record shape so that any two values can be compared.
Num(n) == [t |-> "num", n |-> n, s |-> <<>>, v |-> <<>>]
Str(s) == [t |-> "str", n |-> 0, s |-> s, v |-> <<>>]
Tup(v) == [t |-> "tup", n |-> 0, s |-> <<>>, v |-> v]
Undef == [t |-> "undef", n |-> 0, s |-> <<>>, v |-> <<>>]

\* value[index] (1-based here): undefined past the end of the array.
ElemAt(value, index) ==
    IF value.t = "tup" /\ index <= Len(value.v) THEN value.v[index] ELSE Undef

\* value.length
LengthOf(value) == Len(value.v)

Alice == <<65, 108, 105, 99, 101>>
Hello == <<72, 101, 108, 108, 111>>

\* ------------------------------------------------------------------ codecs
\* A codec descriptor: k the kind, n a size parameter, c the constant bytes,
\* items the item codecs of a tuple.
Leaf(k, n) == [k |-> k, n |-> n, c |-> <<>>, items |-> <<>>]
U8 == Leaf("u8", 1)
\* fixCodecSize(getUtf8Codec(), n)
FixStr(n) == Leaf("fixstr", n)
\* getUtf8Codec(): variable size, no max size, decodes up to the buffer's end
Utf8 == Leaf("utf8", 0)
\* getShortU16Codec(): variable size, max size 3, self-delimiting
ShortU16 == Leaf("shortU16", 3)
\* getConstantCodec(c): a void codec writing c and checking it on read
Const(c) == [k |-> "const", n |-> Len(c), c |-> c, items |-> <<>>]
\* a void codec writing n zero bytes and skipping n bytes unread
Skip(n) == Leaf("skip", n)
\* getTupleCodec(items)
Tuple(items) == [k |-> "tuple", n |-> 0, c |-> <<>>, items |-> items]

\* null / undefined of a size
Null == -1

\* sumCodecSizes: the sum, or null as soon as one size is null
RECURSIVE sumCodecSizes(_)
sumCodecSizes(sizes) ==
    IF sizes = <<>> THEN 0
    ELSE LET all == sumCodecSizes(SubSeq(sizes, 1, Len(sizes) - 1))
             size == sizes[Len(sizes)]
         IN IF all = Null \/ size = Null THEN Null ELSE all + size

RECURSIVE getFixedSize(_)
RECURSIVE getMaxSize(_)

\* const fixedSize = sumCodecSizes(items.map(getFixedSize));
TupleFixedSize(items) ==
    sumCodecSizes([i \in 1..Len(items) |-> getFixedSize(items[i])])

\* const maxSize = sumCodecSizes(items.map(getMaxSize)) ?? undefined;
TupleMaxSize(items) ==
    sumCodecSizes([i \in 1..Len(items) |-> getMaxSize(items[i])])

\* The descriptor with the max size summed over the fixed sizes.
TupleDescriptorFixedMax(items) ==
    LET fixedSize == TupleFixedSize(items)
    IN IF fixedSize = Null
       THEN [fixed |-> FALSE, fixedSize |-> Null, maxSize |-> fixedSize]
       ELSE [fixed |-> TRUE, fixedSize |-> fixedSize, maxSize |-> Null]

\* The size descriptor object spread into createEncoder / createDecoder:
\* { getSizeFromValue, maxSize } when fixedSize === null, { fixedSize } else.
TupleDescriptor(items) ==
    LET fixedSize == TupleFixedSize(items)
        maxSize == TupleMaxSize(items)
    IN IF fixedSize = Null
       THEN [fixed |-> FALSE, fixedSize |-> Null, maxSize |-> maxSize]
       ELSE [fixed |-> TRUE, fixedSize |-> fixedSize, maxSize |-> Null]

\* isFixedSize(codec) ? codec.fixedSize : null
getFixedSize(codec) ==
    CASE codec.k \in {"u8", "fixstr", "const", "skip"} -> codec.n
      [] codec.k \in {"utf8", "shortU16"} -> Null
      [] codec.k = "tuple" -> TupleDescriptor(codec.items).fixedSize

\* isFixedSize(codec) ? codec.fixedSize : (codec.maxSize ?? null)
getMaxSize(codec) ==
    CASE codec.k \in {"u8", "fixstr", "const", "skip"} -> codec.n
      [] codec.k = "utf8" -> Null
      [] codec.k = "shortU16" -> codec.n
      [] codec.k = "tuple" ->
            LET d == TupleDescriptor(codec.items)
            IN IF d.fixed THEN d.fixedSize ELSE d.maxSize

\* ------------------------------------------------------------- encoded size
SizeOk(n) == [n |-> n, err |-> "none"]
SizeErr(e) == [n |-> 0, err |-> e]

RECURSIVE getEncodedSize(_, _)

\* items.map((item, index) => getEncodedSize(value[index], item))
\*      .reduce((all, one) => all + one, 0), for the first i items.
\* Reading value[index] of an undefined value throws a TypeError; an item's
\* failure ends the map.
RECURSIVE SumEncodedSizes(_, _, _)
SumEncodedSizes(items, value, i) ==
    IF i = 0 THEN SizeOk(0)
    ELSE LET all == SumEncodedSizes(items, value, i - 1)
         IN IF all.err # "none" THEN all
            ELSE IF value.t = "undef" THEN SizeErr("TypeError")
            ELSE LET one == getEncodedSize(ElemAt(value, i), items[i])
                 IN IF one.err # "none" THEN one ELSE SizeOk(all.n + one.n)

\* getSizeFromValue with the reduce started at 1 instead of 0.
TupleSizeFromValueFromOne(items, value) ==
    LET all == SumEncodedSizes(items, value, Len(items))
    IN IF all.err # "none" THEN all ELSE SizeOk(all.n + 1)

\* getSizeFromValue of the tuple encoder
TupleSizeFromValue(items, value) == SumEncodedSizes(items, value, Len(items))

\* getSizeFromValue of a variable-size encoder
getSizeFromValue(value, codec) ==
    CASE codec.k = "utf8" -> SizeOk(Len(value.s))
      [] codec.k = "shortU16" ->
            IF value.t = "undef" THEN SizeOk(3)
            ELSE IF value.n <= 127 THEN SizeOk(1)
            ELSE IF value.n <= 16383 THEN SizeOk(2)
            ELSE SizeOk(3)
      [] codec.k = "tuple" -> TupleSizeFromValue(codec.items, value)

\* 'fixedSize' in encoder ? encoder.fixedSize : encoder.getSizeFromValue(value)
getEncodedSize(value, codec) ==
    IF getFixedSize(codec) # Null
    THEN SizeOk(getFixedSize(codec))
    ELSE getSizeFromValue(value, codec)

\* ------------------------------------------------------------------- bytes
Zeros(n) == [i \in 1..n |-> 0]

WriteOk(bytes, offset) == [bytes |-> bytes, offset |-> offset, err |-> "none"]
WriteErr(bytes, offset, e) == [bytes |-> bytes, offset |-> offset, err |-> e]

\* bytes.set(data, offset): a RangeError, and nothing written, when data does
\* not fit; the new offset is offset + advance.
SetBytes(bytes, data, offset, advance) ==
    IF offset + Len(data) > Len(bytes)
    THEN WriteErr(bytes, offset, "RangeError")
    ELSE WriteOk([i \in 1..Len(bytes) |->
                    IF i > offset /\ i <= offset + Len(data)
                    THEN data[i - offset] ELSE bytes[i]],
                 offset + advance)

\* bytes[index], reading as 0 in bitwise arithmetic past the end
ByteAt(bytes, index) == IF index < Len(bytes) THEN bytes[index + 1] ELSE 0

\* removeNullCharacters
RemoveNulls(s) == SelectSeq(s, LAMBDA b : b # 0)

Slice(bytes, from, to) ==
    SubSeq(bytes, from + 1, IF to < Len(bytes) THEN to ELSE Len(bytes))

ShortU16Bytes(n) ==
    IF n <= 127 THEN <<n>>
    ELSE IF n <= 16383 THEN <<128 + (n % 128), n \div 128>>
    ELSE <<128 + (n % 128), 128 + ((n \div 128) % 128), n \div 16384>>

\* ------------------------------------------------------------- tuple write
\* assertValidNumberOfItemsForCodec('tuple', expected, actual) passes
ValidNumberOfItems(expected, actual) == expected = actual

RECURSIVE ItemWrite(_, _, _, _)

\* The forEach body with the returned offset dropped.
WriteStepKeepsOffset(item, element, bytes, offset) ==
    [ItemWrite(item, element, bytes, offset) EXCEPT !.offset = offset]

\* The body of items.forEach in write: offset = item.write(value[index], bytes, offset)
WriteStep(item, element, bytes, offset) == ItemWrite(item, element, bytes, offset)

\* items.forEach(...) of write over the first i items; an item's failure is
\* thrown through forEach and ends it.
RECURSIVE WriteItems(_, _, _, _, _)
WriteItems(items, value, bytes, offset, i) ==
    IF i = 0 THEN WriteOk(bytes, offset)
    ELSE LET before == WriteItems(items, value, bytes, offset, i - 1)
         IN IF before.err # "none" THEN before
            ELSE WriteStep(items[i], ElemAt(value, i), before.bytes, before.offset)

\* write of the tuple encoder
TupleWrite(items, value, bytes, offset) ==
    IF ~ValidNumberOfItems(Len(items), LengthOf(value))
    THEN WriteErr(bytes, offset, "InvalidNumberOfItems")
    ELSE WriteItems(items, value, bytes, offset, Len(items))

\* item.write(value, bytes, offset)
ItemWrite(codec, value, bytes, offset) ==
    CASE codec.k = "u8" ->
            IF value.n < 0 \/ value.n > 255
            THEN WriteErr(bytes, offset, "NumberOutOfRange")
            ELSE SetBytes(bytes, <<value.n>>, offset, 1)
      [] codec.k = "fixstr" ->
            SetBytes(bytes, Slice(value.s, 0, codec.n), offset, codec.n)
      [] codec.k = "utf8" -> SetBytes(bytes, value.s, offset, Len(value.s))
      [] codec.k = "shortU16" ->
            IF value.n < 0 \/ value.n > 65535
            THEN WriteErr(bytes, offset, "NumberOutOfRange")
            ELSE SetBytes(bytes, ShortU16Bytes(value.n), offset,
                          Len(ShortU16Bytes(value.n)))
      [] codec.k = "const" -> SetBytes(bytes, codec.c, offset, codec.n)
      [] codec.k = "skip" -> SetBytes(bytes, Zeros(codec.n), offset, codec.n)
      [] codec.k = "tuple" -> TupleWrite(codec.items, value, bytes, offset)

\* -------------------------------------------------------------- tuple read
ReadOk(value, offset) == [value |-> value, offset |-> offset, err |-> "none"]
ReadErr(offset, e) == [value |-> Undef, offset |-> offset, err |-> e]

\* The shortU16 read loop from byte byteIndex on.
RECURSIVE ShortU16Read(_, _, _, _)
ShortU16Read(bytes, offset, byteIndex, value) ==
    LET currentByte == ByteAt(bytes, offset + byteIndex)
        next == value + (currentByte % 128) * (128 ^ byteIndex)
    IN IF currentByte < 128
       THEN ReadOk(Num(next), offset + byteIndex + 1)
       ELSE ShortU16Read(bytes, offset, byteIndex + 1, next)

RECURSIVE ItemRead(_, _, _)

\* The forEach body with the item's failure caught: undefined is pushed and
\* the loop goes on.
ReadStepCatches(item, bytes, values, offset) ==
    LET r == ItemRead(item, bytes, offset)
    IN IF r.err # "none"
       THEN [values |-> Append(values, Undef), offset |-> offset, err |-> "none"]
       ELSE [values |-> Append(values, r.value), offset |-> r.offset,
             err |-> "none"]

\* The forEach body with the returned offset dropped.
ReadStepKeepsOffset(item, bytes, values, offset) ==
    LET r == ItemRead(item, bytes, offset)
    IN IF r.err # "none"
       THEN [values |-> values, offset |-> offset, err |-> r.err]
       ELSE [values |-> Append(values, r.value), offset |-> offset,
             err |-> "none"]

\* The body of items.forEach in read: the item's value is pushed and the
\* offset moves to the one the item returned.
ReadStep(item, bytes, values, offset) ==
    LET r == ItemRead(item, bytes, offset)
    IN IF r.err # "none"
       THEN [values |-> values, offset |-> offset, err |-> r.err]
       ELSE [values |-> Append(values, r.value), offset |-> r.offset,
             err |-> "none"]

\* items.forEach(...) of read over the first i items
RECURSIVE ReadItems(_, _, _, _)
ReadItems(items, bytes, offset, i) ==
    IF i = 0 THEN [values |-> <<>>, offset |-> offset, err |-> "none"]
    ELSE LET before == ReadItems(items, bytes, offset, i - 1)
         IN IF before.err # "none" THEN before
            ELSE ReadStep(items[i], bytes, before.values, before.offset)

\* read of the tuple decoder: [values, offset]
TupleRead(items, bytes, offset) ==
    LET r == ReadItems(items, bytes, offset, Len(items))
    IN IF r.err # "none" THEN ReadErr(r.offset, r.err)
       ELSE ReadOk(Tup(r.values), r.offset)

\* item.read(bytes, offset)
ItemRead(codec, bytes, offset) ==
    CASE codec.k = "u8" ->
            IF Len(bytes) - offset < 1 THEN ReadErr(offset, "NotEnoughBytes")
            ELSE ReadOk(Num(bytes[offset + 1]), offset + 1)
      [] codec.k = "fixstr" ->
            IF Len(bytes) - offset < codec.n THEN ReadErr(offset, "NotEnoughBytes")
            ELSE ReadOk(Str(RemoveNulls(Slice(bytes, offset, offset + codec.n))),
                        offset + codec.n)
      [] codec.k = "utf8" ->
            ReadOk(Str(RemoveNulls(Slice(bytes, offset, Len(bytes)))), Len(bytes))
      [] codec.k = "shortU16" -> ShortU16Read(bytes, offset, 0, 0)
      [] codec.k = "const" ->
            IF Slice(bytes, offset, offset + codec.n) # codec.c
            THEN ReadErr(offset, "InvalidConstant")
            ELSE ReadOk(Undef, offset + codec.n)
      [] codec.k = "skip" ->
            IF Len(bytes) - offset < codec.n THEN ReadErr(offset, "NotEnoughBytes")
            ELSE ReadOk(Undef, offset + codec.n)
      [] codec.k = "tuple" -> TupleRead(codec.items, bytes, offset)

\* ----------------------------------------------------------- hidden prefix
\* The synthesized tuple with the value in front of the undefined elements.
HiddenPrefixValueFirst(prefixedEncoders, value) ==
    Tup(<<value>> \o [i \in 1..Len(prefixedEncoders) |-> Undef])

\* (value) => [...prefixedEncoders.map(() => undefined), value]
HiddenPrefixValue(prefixedEncoders, value) ==
    Tup([i \in 1..Len(prefixedEncoders) |-> Undef] \o <<value>>)

\* The projection onto the first element.
HiddenPrefixResultFirst(tuple) == tuple[1]

\* tuple => tuple[tuple.length - 1]
HiddenPrefixResult(tuple) == tuple[Len(tuple)]

\* ---------------------------------------------------------------- domains
\* Item codecs a tuple is built from.
TupleItemPool ==
    {U8, FixStr(5), Utf8, ShortU16, Tuple(<<>>), Tuple(<<Utf8>>)}

\* Void codecs a hidden prefix is built from, and main codecs behind them.
VoidPool == {Const(<<1, 2, 3>>), Const(<<4, 5, 6>>), Skip(1), Skip(2)}
MainPool == {Utf8, U8, ShortU16, FixStr(5)}

SeqsUpTo(S, n) == UNION {[1..k -> S] : k \in 0..n}

\* Values handed to an item codec; 256 is one a u8 refuses.
RECURSIVE ItemValues(_)
RECURSIVE ValueSeqs(_, _)
ValueSeqs(its, i) ==
    IF i = 0 THEN {<<>>}
    ELSE {Append(h, e) : h \in ValueSeqs(its, i - 1), e \in ItemValues(its[i])}

ItemValues(codec) ==
    CASE codec.k = "u8" -> {Num(42), Num(7), Num(256)}
      [] codec.k = "fixstr" -> {Str(Alice)}
      [] codec.k = "utf8" -> {Str(<<>>), Str(<<72, 105>>), Str(Hello)}
      [] codec.k = "shortU16" -> {Num(5), Num(300)}
      [] codec.k \in {"const", "skip"} -> {Undef}
      [] codec.k = "tuple" ->
            {Tup(h) : h \in ValueSeqs(codec.items, Len(codec.items))}

\* Tuple values of the right number of elements, one element short, and one
\* element long.
TupleValues(its) == {Tup(h) : h \in ValueSeqs(its, Len(its))}
ShortValues(its) ==
    {Tup(SubSeq(t.v, 1, Len(t.v) - 1)) : t \in {u \in TupleValues(its) : Len(u.v) > 0}}
LongValues(its) == {Tup(Append(t.v, Num(7))) : t \in TupleValues(its)}

\* Buffers handed to a read.
ReadBuffers ==
    {<<>>, <<42>>, <<1, 2, 3>>, <<0, 72, 105>>, <<172, 2, 7>>,
     <<1, 2, 3, 4, 5, 6, 72, 105>>}
Offsets == {0, 1}
Dirty == [i \in 1..WriteBufLen |-> 170]

\* ------------------------------------------------------------ base-X codec
\* A string is the sequence of its characters.
\* The base-58 alphabet with the digits 0-9 in front, as in base 62.
alphabetWithZero ==
    <<
      "0", "1", "2", "3", "4", "5", "6", "7", "8", "9", "A", "B",
      "C", "D", "E", "F", "G", "H", "J", "K", "L", "M", "N", "P",
      "Q", "R", "S", "T", "U", "V", "W", "X", "Y", "Z", "a", "b",
      "c", "d", "e", "f", "g", "h", "i", "j", "k", "m", "n", "o",
      "p", "q", "r", "s", "t", "u", "v", "w", "x", "y", "z"
    >>

\* The base-58 alphabet with its first character typed twice.
alphabetDuplicate ==
    <<
      "1", "1", "3", "4", "5", "6", "7", "8", "9", "A", "B", "C",
      "D", "E", "F", "G", "H", "J", "K", "L", "M", "N", "P", "Q",
      "R", "S", "T", "U", "V", "W", "X", "Y", "Z", "a", "b", "c",
      "d", "e", "f", "g", "h", "i", "j", "k", "m", "n", "o", "p",
      "q", "r", "s", "t", "u", "v", "w", "x", "y", "z"
    >>

\* const alphabet = '123456789ABCDEFGHJKLMNPQRSTUVWXYZabcdefghijkmnopqrstuvwxyz'
alphabet ==
    <<
      "1", "2", "3", "4", "5", "6", "7", "8", "9", "A", "B", "C",
      "D", "E", "F", "G", "H", "J", "K", "L", "M", "N", "P", "Q",
      "R", "S", "T", "U", "V", "W", "X", "Y", "Z", "a", "b", "c",
      "d", "e", "f", "g", "h", "i", "j", "k", "m", "n", "o", "p",
      "q", "r", "s", "t", "u", "v", "w", "x", "y", "z"
    >>

base10Alphabet == <<"0", "1", "2", "3", "4", "5", "6", "7", "8", "9">>
base16Alphabet ==
    <<"0", "1", "2", "3", "4", "5", "6", "7", "8", "9", "a", "b", "c", "d", "e", "f">>

\* getBase58Codec = () => getBaseXCodec(alphabet)
getBase58Codec == [name |-> "base58", alphabet |-> alphabet]
\* getBaseXCodec over other alphabets
getBaseXCodec(name, alpha) == [name |-> name, alphabet |-> alpha]

\* The digit of a character: its index in the alphabet, -1 when it has none.
DigitOf(alpha, ch) ==
    IF \E d \in 1..Len(alpha) : alpha[d] = ch
    THEN (CHOOSE d \in 1..Len(alpha) : alpha[d] = ch) - 1
    ELSE Null

\* Number of leading occurrences of the zero digit's character.
RECURSIVE partitionLeadingZeroes(_, _)
partitionLeadingZeroes(str, zeroCharacter) ==
    IF str # <<>> /\ Head(str) = zeroCharacter
    THEN 1 + partitionLeadingZeroes(Tail(str), zeroCharacter)
    ELSE 0

\* The base-B numeral, most significant character first, as an integer.
RECURSIVE getBigIntFromBaseX(_, _)
getBigIntFromBaseX(str, alpha) ==
    IF str = <<>> THEN 0
    ELSE getBigIntFromBaseX(SubSeq(str, 1, Len(str) - 1), alpha) * Len(alpha)
           + DigitOf(alpha, str[Len(str)])

\* Repeated division by 256: the big-endian bytes, none for 0.
RECURSIVE BigEndianBytes(_)
BigEndianBytes(n) ==
    IF n = 0 THEN <<>> ELSE BigEndianBytes(n \div 256) \o <<n % 256>>

\* Repeated division by B: the characters, most significant first, none for 0.
RECURSIVE getBaseXFromBigInt(_, _)
getBaseXFromBigInt(n, alpha) ==
    IF n = 0 THEN <<>>
    ELSE getBaseXFromBigInt(n \div Len(alpha), alpha) \o <<alpha[(n % Len(alpha)) + 1]>>

\* encode of the base-X encoder
BaseXEncode(alpha, str) ==
    IF \E i \in 1..Len(str) : DigitOf(alpha, str[i]) = Null
    THEN [bytes |-> <<>>, err |-> "InvalidStringForBase"]
    ELSE LET leadingZeroes == partitionLeadingZeroes(str, alpha[1])
             tailChars == SubSeq(str, leadingZeroes + 1, Len(str))
         IN [bytes |-> Zeros(leadingZeroes)
                         \o BigEndianBytes(getBigIntFromBaseX(tailChars, alpha)),
             err |-> "none"]

RECURSIVE BigIntOfBytes(_)
BigIntOfBytes(b) ==
    IF b = <<>> THEN 0
    ELSE BigIntOfBytes(SubSeq(b, 1, Len(b) - 1)) * 256 + b[Len(b)]

RECURSIVE LeadingZeroBytes(_)
LeadingZeroBytes(b) ==
    IF b # <<>> /\ Head(b) = 0 THEN 1 + LeadingZeroBytes(Tail(b)) ELSE 0

\* decode of the base-X decoder
BaseXDecode(alpha, b) ==
    LET trailIndex == LeadingZeroBytes(b)
        leadingZeroes == [i \in 1..trailIndex |-> alpha[1]]
    IN leadingZeroes
         \o getBaseXFromBigInt(BigIntOfBytes(SubSeq(b, trailIndex + 1, Len(b))), alpha)

\* Longest string encoded and longest buffer decoded.
MaxStringLen == 4
MaxBufLen == 3

\* Characters strings are made of: the zero digits of the alphabets, other
\* digits, and characters some alphabets do not have.
TestChars == {"0", "1", "2", "f", "z"}
BaseXStrings == SeqsUpTo(TestChars, MaxStringLen) \cup {<<"h", "e", "L", "L", "o">>}
BaseXBuffers == SeqsUpTo({0, 1, 127}, MaxBufLen)

VARIABLES
    bxCodec,      \* the base-X codec: its name and alphabet
    bxPc,         \* "idle", "encoded", "decoded", "reencoded", "failed"
    bxFrom,       \* what the call started from: "none", "string", "bytes"
    bxString,     \* the string encoded
    bxBytes,      \* the bytes encode returned, or the bytes decoded
    bxBack,       \* the bytes encode returned for the string decode returned
    bxResult,     \* the string decode returned
    bxErr         \* the failure thrown, "none" when none

baseX == <<bxCodec, bxPc, bxFrom, bxString, bxBytes, bxBack, bxResult, bxErr>>

\* ------------------------------------------------------------------ state
VARIABLES
    items,        \* the item codecs the tuple was built from
    hidden,       \* TRUE for a hidden-prefix codec: items = prefixes \o <<main>>
    encoderSize,  \* the size descriptor of the encoder
    decoderSize,  \* the size descriptor of the decoder
    call,         \* the call in progress: "none", "encode", "write", "read"
    pc,           \* "idle", "size", "assert", "items", "done", "failed"
    arg,          \* the value the caller passed
    value,        \* the tuple value the tuple encoder's write receives
    bytes,        \* the buffer written to or read from
    bytes0,       \* the buffer as it was when write or read was entered
    start,        \* the offset write or read was entered with
    offset,       \* the offset variable of write / read
    idx,          \* the number of items forEach has processed
    values,       \* the values array of read
    result,       \* the value a finished read returned
    err,          \* the failure thrown, "none" when none
    errContext,   \* <<expected, actual>> of an item-count failure
    trace,        \* the item writes / reads of this call: <<index, from, to>>
    roundTrip,    \* TRUE when the buffer read is the one the last encode returned
    earlier       \* the number of calls already made on this codec

vars ==
    <<items, hidden, encoderSize, decoderSize, call, pc, arg, value, bytes,
      bytes0, start, offset, idx, values, result, err, errContext, trace,
      roundTrip, earlier, bxCodec, bxPc, bxFrom, bxString, bxBytes, bxBack,
      bxResult, bxErr>>

codec == <<items, hidden, encoderSize, decoderSize>>

Prefixes == SubSeq(items, 1, Len(items) - 1)
Main == items[Len(items)]

Idle ==
    /\ call = "none" /\ pc = "idle" /\ arg = Undef /\ value = Undef
    /\ bytes = <<>> /\ bytes0 = <<>> /\ start = 0 /\ offset = 0 /\ idx = 0
    /\ values = <<>> /\ result = Undef /\ err = "none" /\ errContext = <<>>
    /\ trace = <<>> /\ roundTrip = FALSE

BaseXIdle ==
    /\ bxPc = "idle" /\ bxFrom = "none" /\ bxString = <<>> /\ bxBytes = <<>>
    /\ bxResult = <<>> /\ bxErr = "none" /\ bxBack = <<>>

\* getTupleCodec(items), or getHiddenPrefixCodec(main, prefixes)
Init ==
    /\ hidden \in BOOLEAN
    /\ items \in IF hidden
                 THEN {p \o <<m>> : p \in SeqsUpTo(VoidPool, MaxPrefixes), m \in MainPool}
                 ELSE SeqsUpTo(TupleItemPool, MaxItems)
    /\ encoderSize = TupleDescriptor(items)
    /\ decoderSize = TupleDescriptor(items)
    /\ Idle
    /\ earlier = 0
    /\ bxCodec = getBaseXCodec("none", <<>>)
    /\ BaseXIdle

\* ----------------------------------------------------------------- actions
\* The value the tuple encoder receives: the caller's for a tuple codec, the
\* synthesized one for a hidden-prefix codec (transformEncoder's unmap).
Unmapped(v) == IF hidden THEN HiddenPrefixValue(Prefixes, v) ELSE v

CallValues ==
    IF hidden THEN ItemValues(Main)
    ELSE TupleValues(items) \cup ShortValues(items) \cup LongValues(items)

\* encoder.encode(v): entered
encode ==
    /\ pc = "idle"
    /\ earlier < MaxCalls
    /\ \E v \in CallValues :
          /\ arg' = v
          /\ value' = Unmapped(v)
    /\ call' = "encode"
    /\ pc' = "size"
    /\ UNCHANGED <<baseX, codec, bytes, bytes0, start, offset, idx, values, result,
                   err, errContext, trace, roundTrip, earlier>>

\* encode: const bytes = new Uint8Array(getEncodedSize(value, encoder))
GetSize ==
    /\ pc = "size"
    /\ LET size == IF encoderSize.fixed
                   THEN SizeOk(encoderSize.fixedSize)
                   ELSE TupleSizeFromValue(items, value)
       IN IF size.err # "none"
          THEN /\ pc' = "failed"
               /\ err' = size.err
               /\ UNCHANGED <<bytes, bytes0>>
          ELSE /\ pc' = "assert"
               /\ bytes' = Zeros(size.n)
               /\ bytes0' = Zeros(size.n)
               /\ UNCHANGED err
    /\ UNCHANGED <<baseX, codec, call, arg, value, start, offset, idx, values, result,
                   errContext, trace, roundTrip, earlier>>

\* encoder.write(v, buf, off) on a caller-supplied buffer: entered
write ==
    /\ pc = "idle"
    /\ earlier < MaxCalls
    /\ \E v \in CallValues :
          /\ arg' = v
          /\ value' = Unmapped(v)
    /\ \E off \in Offsets :
          /\ start' = off
          /\ offset' = off
    /\ bytes' = Dirty
    /\ bytes0' = Dirty
    /\ call' = "write"
    /\ pc' = "assert"
    /\ UNCHANGED <<baseX, codec, idx, values, result, err, errContext, trace, roundTrip, earlier>>

\* write without its count assertion.
AssertCountSkipped ==
    /\ pc = "assert"
    /\ pc' = "items"
    /\ UNCHANGED <<baseX, codec, call, arg, value, bytes, bytes0, start, offset, idx,
                   values, result, err, errContext, trace, roundTrip, earlier>>

\* write: assertValidNumberOfItemsForCodec('tuple', items.length, value.length)
AssertCount ==
    /\ pc = "assert"
    /\ IF ValidNumberOfItems(Len(items), LengthOf(value))
       THEN /\ pc' = "items"
            /\ UNCHANGED <<err, errContext>>
       ELSE /\ pc' = "failed"
            /\ err' = "InvalidNumberOfItems"
            /\ errContext' = <<Len(items), LengthOf(value)>>
    /\ UNCHANGED <<baseX, codec, call, arg, value, bytes, bytes0, start, offset, idx,
                   values, result, trace, roundTrip, earlier>>

\* write: one iteration of items.forEach
WriteItem ==
    /\ pc = "items"
    /\ call \in {"encode", "write"}
    /\ idx < Len(items)
    /\ LET r == WriteStep(items[idx + 1], ElemAt(value, idx + 1), bytes, offset)
       IN /\ bytes' = r.bytes
          /\ IF r.err # "none"
             THEN /\ pc' = "failed"
                  /\ err' = r.err
                  /\ UNCHANGED <<offset, idx, trace>>
             ELSE /\ offset' = r.offset
                  /\ idx' = idx + 1
                  /\ trace' = Append(trace, <<idx + 1, offset, r.offset>>)
                  /\ UNCHANGED <<pc, err>>
    /\ UNCHANGED <<baseX, codec, call, arg, value, bytes0, start, values, result,
                   errContext, roundTrip, earlier>>

\* write: return offset (encode then returns bytes)
WriteReturn ==
    /\ pc = "items"
    /\ call \in {"encode", "write"}
    /\ idx = Len(items)
    /\ pc' = "done"
    /\ UNCHANGED <<baseX, codec, call, arg, value, bytes, bytes0, start, offset, idx,
                   values, result, err, errContext, trace, roundTrip, earlier>>

\* decoder.read(buf, off): entered
read ==
    /\ pc = "idle"
    /\ earlier < MaxCalls
    /\ \E buf \in ReadBuffers :
          /\ bytes' = buf
          /\ bytes0' = buf
    /\ \E off \in Offsets :
          /\ start' = off
          /\ offset' = off
    /\ call' = "read"
    /\ pc' = "items"
    /\ UNCHANGED <<baseX, codec, arg, value, idx, values, result, err, errContext,
                   trace, roundTrip, earlier>>

\* codec.decode(codec.encode(v)): the bytes encode returned are read at 0
decodeEncoded ==
    /\ pc = "done"
    /\ call = "encode"
    /\ call' = "read"
    /\ pc' = "items"
    /\ bytes0' = bytes
    /\ start' = 0
    /\ offset' = 0
    /\ idx' = 0
    /\ trace' = <<>>
    /\ roundTrip' = TRUE
    /\ UNCHANGED <<baseX, codec, arg, value, bytes, values, result, err, errContext,
                   earlier>>

\* read: one iteration of items.forEach
ReadItem ==
    /\ pc = "items"
    /\ call = "read"
    /\ idx < Len(items)
    /\ LET r == ReadStep(items[idx + 1], bytes, values, offset)
       IN IF r.err # "none"
          THEN /\ pc' = "failed"
               /\ err' = r.err
               /\ UNCHANGED <<offset, idx, values, trace>>
          ELSE /\ values' = r.values
               /\ offset' = r.offset
               /\ idx' = idx + 1
               /\ trace' = Append(trace, <<idx + 1, offset, r.offset>>)
               /\ UNCHANGED <<pc, err>>
    /\ UNCHANGED <<baseX, codec, call, arg, value, bytes, bytes0, start, result,
                   errContext, roundTrip, earlier>>

\* read: return [values, offset]; the hidden-prefix decoder maps the tuple to
\* its last element (transformDecoder)
ReadReturn ==
    /\ pc = "items"
    /\ call = "read"
    /\ idx = Len(items)
    /\ result' = IF hidden THEN HiddenPrefixResult(values) ELSE Tup(values)
    /\ pc' = "done"
    /\ UNCHANGED <<baseX, codec, call, arg, value, bytes, bytes0, start, offset, idx,
                   values, err, errContext, trace, roundTrip, earlier>>

\* The call is over, with the values array kept by the decoder instead of
\* being made anew by each read.
ReturnKeepsValues ==
    /\ pc \in {"done", "failed"}
    /\ call' = "none" /\ pc' = "idle" /\ arg' = Undef /\ value' = Undef
    /\ bytes' = <<>> /\ bytes0' = <<>> /\ start' = 0 /\ offset' = 0 /\ idx' = 0
    /\ result' = Undef /\ err' = "none" /\ errContext' = <<>>
    /\ trace' = <<>> /\ roundTrip' = FALSE
    /\ earlier' = earlier + 1
    /\ UNCHANGED <<baseX, codec, values>>

\* The call is over: its result or failure has reached the caller.
Return ==
    /\ pc \in {"done", "failed"}
    /\ call' = "none" /\ pc' = "idle" /\ arg' = Undef /\ value' = Undef
    /\ bytes' = <<>> /\ bytes0' = <<>> /\ start' = 0 /\ offset' = 0 /\ idx' = 0
    /\ values' = <<>> /\ result' = Undef /\ err' = "none" /\ errContext' = <<>>
    /\ trace' = <<>> /\ roundTrip' = FALSE
    /\ earlier' = earlier + 1
    /\ UNCHANGED <<baseX, codec>>

Next ==
    \/ encode
    \/ GetSize
    \/ write
    \/ AssertCount
    \/ WriteItem
    \/ WriteReturn
    \/ read
    \/ decodeEncoded
    \/ ReadItem
    \/ ReadReturn
    \/ Return

Spec == Init /\ [][Next]_vars

\* ------------------------------------------------------- base-X actions
tupleState ==
    <<codec, call, pc, arg, value, bytes, bytes0, start, offset, idx, values,
      result, err, errContext, trace, roundTrip, earlier>>

\* getBase58Codec(), or getBaseXCodec(alphabet)
InitBaseX ==
    /\ bxCodec \in {getBase58Codec, getBaseXCodec("base10", base10Alphabet),
                    getBaseXCodec("base16", base16Alphabet)}
    /\ BaseXIdle
    /\ hidden = FALSE
    /\ items = <<>>
    /\ encoderSize = TupleDescriptor(items)
    /\ decoderSize = TupleDescriptor(items)
    /\ Idle
    /\ earlier = 0

\* codec.encode(str)
baseXEncode ==
    /\ bxPc = "idle"
    /\ \E str \in BaseXStrings :
          LET r == BaseXEncode(bxCodec.alphabet, str)
          IN /\ bxString' = str
             /\ bxBytes' = r.bytes
             /\ bxErr' = r.err
             /\ bxPc' = IF r.err = "none" THEN "encoded" ELSE "failed"
    /\ bxFrom' = "string"
    /\ UNCHANGED <<tupleState, bxCodec, bxResult, bxBack>>

\* codec.decode(codec.encode(str)): the bytes encode returned are decoded
baseXDecodeEncoded ==
    /\ bxPc = "encoded"
    /\ bxFrom = "string"
    /\ bxResult' = BaseXDecode(bxCodec.alphabet, bxBytes)
    /\ bxPc' = "decoded"
    /\ UNCHANGED <<tupleState, bxCodec, bxFrom, bxString, bxBytes, bxBack, bxErr>>

\* codec.decode(buf)
baseXDecode ==
    /\ bxPc = "idle"
    /\ \E buf \in BaseXBuffers :
          /\ bxBytes' = buf
          /\ bxResult' = BaseXDecode(bxCodec.alphabet, buf)
    /\ bxFrom' = "bytes"
    /\ bxPc' = "decoded"
    /\ UNCHANGED <<tupleState, bxCodec, bxString, bxBack, bxErr>>

\* codec.encode(codec.decode(buf)): the string decode returned is encoded
baseXEncodeDecoded ==
    /\ bxPc = "decoded"
    /\ bxFrom = "bytes"
    /\ LET r == BaseXEncode(bxCodec.alphabet, bxResult)
       IN /\ bxBack' = r.bytes
          /\ bxErr' = r.err
          /\ bxPc' = IF r.err = "none" THEN "reencoded" ELSE "failed"
    /\ UNCHANGED <<tupleState, bxCodec, bxFrom, bxString, bxBytes, bxResult>>

\* The call is over.
baseXReturn ==
    /\ bxPc \in {"encoded", "decoded", "reencoded", "failed"}
    /\ bxPc' = "idle" /\ bxFrom' = "none" /\ bxString' = <<>> /\ bxBytes' = <<>>
    /\ bxResult' = <<>> /\ bxErr' = "none" /\ bxBack' = <<>>
    /\ UNCHANGED <<tupleState, bxCodec>>

NextBaseX ==
    \/ baseXEncode
    \/ baseXDecodeEncoded
    \/ baseXDecode
    \/ baseXEncodeDecoded
    \/ baseXReturn

SpecBaseX == InitBaseX /\ [][NextBaseX]_vars

\* ------------------------------------------------------- checking helpers
\* createEncoder's encode for one item on its own: a fresh buffer of the
\* item's encoded size, written at offset 0.
ItemEncode(item, v) ==
    ItemWrite(item, v, Zeros(getEncodedSize(v, item).n), 0).bytes

RECURSIVE ConcatAll(_)
ConcatAll(seqs) ==
    IF seqs = <<>> THEN <<>>
    ELSE ConcatAll(SubSeq(seqs, 1, Len(seqs) - 1)) \o seqs[Len(seqs)]

RECURSIVE PlainSum(_)
PlainSum(ns) ==
    IF ns = <<>> THEN 0 ELSE PlainSum(SubSeq(ns, 1, Len(ns) - 1)) + ns[Len(ns)]

InWrite == call \in {"encode", "write"}
Over == pc \in {"done", "failed"}

\* C1: encoding a value whose number of elements differs from the number of
\* item encoders always fails with the item-count-mismatch failure carrying
\* the expected and the actual count, and with no other failure.
C1_MismatchAlwaysInvalidNumberOfItems ==
    (InWrite /\ Over /\ LengthOf(value) # Len(items))
        => /\ pc = "failed"
           /\ err = "InvalidNumberOfItems"
           /\ errContext = <<Len(items), LengthOf(value)>>

\* C2: a write entered with a value of the wrong number of elements fails
\* with the buffer byte-for-byte as the caller passed it: no item write has
\* run and the write never gets past its count assertion.
C2_MismatchLeavesBufferUntouched ==
    (InWrite /\ LengthOf(value) # Len(items))
        => /\ bytes = bytes0
           /\ trace = <<>>
           /\ offset = start
           /\ pc \notin {"items", "done"}
           /\ (pc = "failed" /\ call = "write"
                 => /\ err = "InvalidNumberOfItems"
                    /\ errContext = <<Len(items), LengthOf(value)>>)

C2_Witness ==
    /\ call = "write" /\ pc = "failed" /\ err = "InvalidNumberOfItems"
    /\ Len(items) = 2 /\ LengthOf(value) = 1
    /\ bytes = Dirty

\* C3: a finished tuple write has produced the items' own encodings, one
\* after the other in declaration order: item i lies at the start offset plus
\* the encoded sizes of the items before it, the returned offset is the start
\* offset plus all sizes, and nothing else of the buffer has changed.
C3_BytesAreConcatenation ==
    (InWrite /\ pc = "done")
        => LET enc == [i \in 1..Len(items) |-> ItemEncode(items[i], value.v[i])]
               before(i) == PlainSum([j \in 1..(i - 1) |-> Len(enc[j])])
           IN /\ Slice(bytes, start, offset) = ConcatAll(enc)
              /\ offset = start + before(Len(items) + 1)
              /\ \A i \in 1..Len(items) :
                    Slice(bytes, start + before(i), start + before(i + 1)) = enc[i]
              /\ \A i \in 1..Len(bytes) :
                    (i <= start \/ i > offset) => bytes[i] = bytes0[i]
              /\ call = "encode" => bytes = ConcatAll(enc)
              /\ (items = <<FixStr(5), U8>> /\ value = Tup(<<Str(Alice), Num(42)>>)
                    /\ call = "encode")
                   => bytes = <<65, 108, 105, 99, 101, 42>>

C3_Witness ==
    /\ call = "encode" /\ pc = "done"
    /\ items = <<FixStr(5), U8>>
    /\ value = Tup(<<Str(Alice), Num(42)>>)
    /\ bytes = <<65, 108, 105, 99, 101, 42>>

\* An item codec round-trips on its own over the values handed to it.
RoundTripsAlone(item) ==
    \A v \in ItemValues(item) :
        LET w == ItemWrite(item, v, Zeros(getEncodedSize(v, item).n), 0)
        IN w.err = "none" => ItemRead(item, w.bytes, 0) = ReadOk(v, Len(w.bytes))

\* Bytes that may follow an item's encoding in a buffer.
Tails == {<<>>, <<0>>, <<7>>, <<200, 1>>}

\* An item codec is self-delimiting: its decoder consumes exactly the bytes
\* its encoder wrote, whatever bytes follow them.
SelfDelimiting(item) ==
    \A v \in ItemValues(item), tail \in Tails :
        LET w == ItemWrite(item, v, Zeros(getEncodedSize(v, item).n), 0)
        IN w.err = "none"
             => ItemRead(item, w.bytes \o tail, 0) = ReadOk(v, Len(w.bytes))

\* C4 as stated: decode(encode(V)) = V for a tuple of items that round-trip
\* on their own, whatever position a variable-size item occupies.
C4_RoundTripAnyPosition ==
    (~hidden /\ roundTrip /\ Over /\ \A i \in 1..Len(items) : RoundTripsAlone(items[i]))
        => pc = "done" /\ result = arg

\* C4 amended: decode(encode(V)) = V, element by element, for a tuple of
\* items that round-trip on their own and of which every item but the last
\* is self-delimiting.
C4_RoundTripSelfDelimiting ==
    (/\ ~hidden /\ roundTrip /\ Over
     /\ \A i \in 1..Len(items) : RoundTripsAlone(items[i])
     /\ \A i \in 1..(Len(items) - 1) : SelfDelimiting(items[i]))
        => /\ pc = "done"
           /\ Len(result.v) = Len(items)
           /\ \A i \in 1..Len(items) : result.v[i] = arg.v[i]
           /\ offset = Len(bytes)

C4_Witness ==
    /\ ~hidden /\ roundTrip /\ pc = "done"
    /\ items = <<ShortU16, Utf8>>
    /\ arg = Tup(<<Num(300), Str(Hello)>>)
    /\ result = arg

\* C5: the tuple's size descriptor is fixed exactly when every item is fixed,
\* with the sum of the items' fixed sizes (0 for no items); otherwise it has
\* no fixed size and its max size is the sum of the items' bounds when every
\* item has one, and absent as soon as one item has none.
C5_SizeDescriptor ==
    LET n == Len(items)
        allFixed == \A i \in 1..n : getFixedSize(items[i]) # Null
        allBounded == \A i \in 1..n : getMaxSize(items[i]) # Null
        fixedSum == PlainSum([i \in 1..n |-> getFixedSize(items[i])])
        boundSum == PlainSum([i \in 1..n |-> getMaxSize(items[i])])
    IN \A d \in {encoderSize, decoderSize} :
          /\ d.fixed <=> allFixed
          /\ d.fixed => d.fixedSize = fixedSum /\ d.maxSize = Null
          /\ ~d.fixed => d.fixedSize = Null
          /\ (~d.fixed /\ allBounded) => d.maxSize = boundSum
          /\ (~d.fixed /\ ~allBounded) => d.maxSize = Null
          /\ n = 0 => d.fixed /\ d.fixedSize = 0

C5_Witness ==
    /\ items = <<ShortU16, U8>>
    /\ ~encoderSize.fixed /\ encoderSize.maxSize = 4
    /\ ~decoderSize.fixed /\ decoderSize.maxSize = 4

\* C6: the bytes a hidden-prefix encoder returns are the prefixes' encodings
\* of undefined, in the order supplied, followed by the main encoder's
\* encoding of the caller's value.
C6_HiddenPrefixBytes ==
    (hidden /\ call = "encode" /\ pc = "done")
        => /\ bytes = ConcatAll([i \in 1..Len(Prefixes) |-> ItemEncode(Prefixes[i], Undef)])
                        \o ItemEncode(Main, arg)
           /\ (items = <<Const(<<1, 2, 3>>), Const(<<4, 5, 6>>), Utf8>> /\ arg = Str(Hello))
                => bytes = <<1, 2, 3, 4, 5, 6, 72, 101, 108, 108, 111>>

C6_Witness ==
    /\ hidden /\ call = "encode" /\ pc = "done"
    /\ items = <<Const(<<1, 2, 3>>), Const(<<4, 5, 6>>), Utf8>>
    /\ arg = Str(Hello)
    /\ bytes = <<1, 2, 3, 4, 5, 6, 72, 101, 108, 108, 111>>

\* C7: decoding what a hidden-prefix codec encoded returns the caller's
\* value: every prefix decoder and then the main decoder has run, and the
\* result is the main decoder's value, the last element of the tuple.
C7_HiddenPrefixRoundTrip ==
    (hidden /\ roundTrip /\ Over)
        => /\ pc = "done"
           /\ result = arg
           /\ Len(values) = Len(items)
           /\ result = values[Len(values)]
           /\ \A i \in 1..Len(Prefixes) : values[i] = Undef
           /\ offset = Len(bytes)

C7_Witness ==
    /\ hidden /\ roundTrip /\ pc = "done"
    /\ items = <<Const(<<1, 2, 3>>), Const(<<4, 5, 6>>), Utf8>>
    /\ bytes = <<1, 2, 3, 4, 5, 6, 72, 101, 108, 108, 111>>
    /\ result = Str(Hello)

\* The byte range <<from, to>> item i takes on its own from its start offset.
OwnRange(i) ==
    LET from == trace[i][2]
    IN IF InWrite
       THEN <<from, from + Len(ItemEncode(items[i], value.v[i]))>>
       ELSE <<from, ItemRead(items[i], bytes, from).offset>>

\* Items are taken in declaration order, each from the offset the one before
\* it returned, each over exactly its own byte range.
InOrderAndContiguous ==
    /\ pc \in {"items", "done"} => idx = Len(trace)
    /\ \A i \in 1..Len(trace) :
          /\ trace[i][1] = i
          /\ trace[i][2] = (IF i = 1 THEN start ELSE trace[i - 1][3])
          /\ <<trace[i][2], trace[i][3]>> = OwnRange(i)
    /\ (pc \in {"items", "done"} /\ trace # <<>>) => offset = trace[Len(trace)][3]

\* C8 as stated: items are processed in declaration order over contiguous
\* ranges and the start offsets of successive items are strictly increasing.
C8_StrictlyIncreasingStarts ==
    /\ InOrderAndContiguous
    /\ \A i \in 2..Len(trace) : trace[i][2] > trace[i - 1][2]

\* C8 amended: items are processed in declaration order, item i+1 starting
\* at exactly the offset item i returned, over contiguous ranges that do not
\* overlap; on a write the start offsets never decrease, and the start offset
\* increases from one item to the next exactly when the earlier item takes at
\* least one byte.
C8_InOrderNonDecreasingStarts ==
    /\ InOrderAndContiguous
    /\ InWrite => \A i \in 1..Len(trace) : trace[i][2] <= trace[i][3]
    /\ \A i \in 2..Len(trace) :
          (trace[i][2] > trace[i - 1][2]) <=> (trace[i - 1][3] > trace[i - 1][2])
    /\ \A i, j \in 1..Len(trace) :
          (i < j /\ trace[i][2] <= trace[i][3] /\ trace[j][2] <= trace[j][3]
             /\ InWrite)
            => trace[i][3] <= trace[j][2]

C8_Witness ==
    /\ call = "encode" /\ pc = "done"
    /\ items = <<Tuple(<<>>), U8>>
    /\ trace = <<<<1, 0, 0>>, <<2, 0, 1>>>>

\* read of the hidden-prefix decoder: the tuple decoder's read, mapped to
\* the tuple's last element (transformDecoder)
HiddenPrefixRead(its, buf, off) ==
    LET r == TupleRead(its, buf, off)
    IN IF r.err # "none" THEN r
       ELSE ReadOk(HiddenPrefixResult(r.value.v), r.offset)

\* Bytes put in place of the ones a prefix covers.
AltBytes == {0, 1, 255}

\* The buffers that differ from buf at most in the n bytes from off on.
Alternatives(buf, off, n) ==
    {[i \in 1..Len(buf) |-> IF i > off /\ i <= off + n THEN f[i - off] ELSE buf[i]] :
        f \in [1..n -> AltBytes]}

PrefixLength == PlainSum([i \in 1..Len(Prefixes) |-> Prefixes[i].n])

\* C9: behind prefix decoders that only skip their bytes, the outcome of a
\* hidden-prefix read is the same for every buffer that differs only in the
\* bytes the prefixes cover: the same main value and the same final offset, or
\* the same failure.
C9_PrefixContentIgnored ==
    (hidden /\ call = "read" /\ Over /\ \A i \in 1..Len(Prefixes) : Prefixes[i].k = "skip")
        => \A alt \in Alternatives(bytes0, start, PrefixLength) :
              LET r == HiddenPrefixRead(items, alt, start)
              IN /\ pc = "done" => r = ReadOk(result, offset)
                 /\ pc = "failed" => r.err = err

C9_Witness ==
    /\ hidden /\ call = "read" /\ pc = "done"
    /\ items = <<Skip(1), Skip(2), Utf8>>
    /\ bytes0 = <<1, 2, 3, 4, 5, 6, 72, 105>> /\ start = 0
    /\ result = Str(<<4, 5, 6, 72, 105>>) /\ offset = 8

\* Number of leading elements of s equal to x.
LeadingCount(s, x) ==
    CHOOSE n \in 0..Len(s) :
        /\ \A i \in 1..n : s[i] = x
        /\ n = Len(s) \/ s[n + 1] # x

\* The zero digit's character: '1' for base 58, the alphabet's first otherwise.
ZeroCharacter == IF bxCodec.name = "base58" THEN "1" ELSE bxCodec.alphabet[1]

\* C10: a string of N zero-digit characters followed by a suffix of non-zero
\* value encodes to bytes with exactly N leading 0x00 bytes, and decoding
\* them reproduces the string, with exactly N leading zero-digit characters.
C10_LeadingZeroesPreserved ==
    LET N == LeadingCount(bxString, ZeroCharacter)
    IN (bxFrom = "string" /\ bxPc \in {"encoded", "decoded"} /\ N < Len(bxString))
          => /\ LeadingCount(bxBytes, 0) = N
             /\ Len(bxBytes) > N
             /\ bxPc = "decoded"
                  => /\ bxResult = bxString
                     /\ LeadingCount(bxResult, ZeroCharacter) = N

C10_Witness ==
    /\ bxCodec.name = "base58" /\ bxPc = "decoded" /\ bxFrom = "string"
    /\ bxString = <<"1", "1", "2", "z">>
    /\ bxBytes = <<0, 0, 115>>
    /\ bxResult = <<"1", "1", "2", "z">>

\* C11: decoding any byte buffer to its alphabet string and encoding that
\* string gives the buffer back: the same bytes, the same length and the same
\* number of leading 0x00 bytes, each of which is one leading zero-digit
\* character of the string; buffers of 0x00 bytes alone and the empty buffer
\* included.
C11_BytesRoundTrip ==
    /\ (bxFrom = "bytes" /\ bxPc \in {"decoded", "reencoded"})
          => LeadingCount(bxResult, ZeroCharacter) = LeadingCount(bxBytes, 0)
    /\ (bxFrom = "bytes" /\ bxPc \in {"reencoded", "failed"})
          => /\ bxPc = "reencoded"
             /\ bxBack = bxBytes
             /\ Len(bxBack) = Len(bxBytes)
             /\ LeadingCount(bxBack, 0) = LeadingCount(bxBytes, 0)

C11_Witness ==
    /\ bxCodec.name = "base58" /\ bxFrom = "bytes" /\ bxPc = "reencoded"
    /\ bxBytes = <<0, 0, 1>>
    /\ bxResult = <<"1", "1", "2">>
    /\ bxBack = <<0, 0, 1>>

\* The string as a base-58 numeral: digit value = index of the character,
\* most significant character first.
NumericValue(str) ==
    PlainSum([i \in 1..Len(str) |-> DigitOf(alphabet, str[i]) * 58 ^ (Len(str) - i)])

\* No byte for the value 0, otherwise a first byte other than 0x00.
Minimal(b) == b = <<>> \/ b[1] # 0

heLLo == <<"h", "e", "L", "L", "o">>

Base58Encoded ==
    bxCodec.name = "base58" /\ bxFrom = "string" /\ bxPc \in {"encoded", "decoded"}

Base58Example ==
    /\ (Base58Encoded /\ bxString = heLLo) => bxBytes = <<27, 106, 48, 112>>
    /\ (bxCodec.name = "base58" /\ bxFrom = "bytes" /\ bxPc \in {"decoded", "reencoded"}
          /\ bxBytes = <<27, 106, 48, 112>>) => bxResult = heLLo

\* C12 as stated: the base-58 encoder maps every string over the alphabet to
\* the minimal big-endian bytes of its numeric value, with no leading 0x00
\* byte, and the decoder maps those bytes back to the string.
C12_MinimalBytesOfValue ==
    /\ Base58Encoded
          => /\ BigIntOfBytes(bxBytes) = NumericValue(bxString)
             /\ Minimal(bxBytes)
             /\ bxPc = "decoded" => bxResult = bxString
    /\ Base58Example

\* C12: the base-58 encoder maps a string over the alphabet to one 0x00 byte
\* for each leading '1' of the string, followed by the minimal big-endian
\* bytes of its numeric value (no byte for the value 0), and the decoder maps
\* those bytes back to the string; a string that does not start with '1'
\* gets no leading 0x00 byte, and 'heLLo' encodes to 1b 6a 30 70, which
\* decodes to 'heLLo'.
C12_MinimalBytesAfterLeadingOnes ==
    /\ Base58Encoded
          => LET N == LeadingCount(bxString, "1")
                 rest == SubSeq(bxBytes, N + 1, Len(bxBytes))
             IN /\ Len(bxBytes) >= N
                /\ \A i \in 1..N : bxBytes[i] = 0
                /\ BigIntOfBytes(rest) = NumericValue(bxString)
                /\ Minimal(rest)
                /\ bxPc = "decoded" => bxResult = bxString
    /\ Base58Example

C12_Witness ==
    /\ bxCodec.name = "base58" /\ bxFrom = "string" /\ bxPc = "decoded"
    /\ bxString = heLLo
    /\ bxBytes = <<27, 106, 48, 112>>
    /\ bxResult = heLLo

\* The item the loop is at, and the outcome of that item's own read or write.
AtItem == pc = "items" /\ idx < Len(items)

ItemFailure ==
    IF call = "read"
    THEN ItemRead(items[idx + 1], bytes, offset).err
    ELSE ItemWrite(items[idx + 1], ElemAt(value, idx + 1), bytes, offset).err

ItemFails == AtItem /\ ItemFailure # "none"

\* The step at a failing item: the call fails there with the item's failure
\* and no added context, and nothing else moves.
FailsWithItemFailure ==
    ItemFails
      => /\ pc' = "failed"
         /\ err' = ItemFailure
         /\ errContext' = errContext
         /\ idx' = idx /\ offset' = offset /\ trace' = trace
         /\ values' = values
         /\ result' = Undef

\* The step after a failure: the failure reaches the caller and the call is
\* over; no item is processed after it and nothing is returned.
FailureIsFinal ==
    pc = "failed" => (pc' = "idle" /\ call' = "none" /\ result = Undef)

\* C13: when the read or write of an item of a tuple fails, the tuple
\* operation fails at once with exactly that item's failure, unchanged and
\* unwrapped; no later item is read or written, nothing is retried, and no
\* partially decoded tuple is returned. The same holds for a hidden-prefix
\* codec when a prefix codec or the main codec fails.
C13_ItemFailurePropagates ==
    /\ [](pc = "failed" => (result = Undef /\ Len(trace) = idx))
    /\ [][FailsWithItemFailure /\ FailureIsFinal]_vars

C13_Witness ==
    /\ ~hidden /\ call = "read" /\ pc = "failed"
    /\ items = <<U8, U8>>
    /\ bytes0 = <<42>> /\ start = 0
    /\ idx = 1 /\ values = <<Num(42)>> /\ trace = <<<<1, 0, 1>>>>
    /\ err = "NotEnoughBytes" /\ errContext = <<>>
    /\ result = Undef

\* encode, write and read of a codec constructed from the same items and not
\* used before.
FreshEncode(its, v) ==
    LET size == IF TupleDescriptor(its).fixed
                THEN SizeOk(TupleDescriptor(its).fixedSize)
                ELSE TupleSizeFromValue(its, v)
    IN IF size.err # "none"
       THEN WriteErr(<<>>, 0, size.err)
       ELSE TupleWrite(its, v, Zeros(size.n), 0)

FreshWrite(its, v, buf, off) == TupleWrite(its, v, buf, off)

FreshRead(its, buf, off) ==
    IF hidden THEN HiddenPrefixRead(its, buf, off) ELSE TupleRead(its, buf, off)

SameAsFresh ==
    /\ (Over /\ call = "encode")
          => LET f == FreshEncode(items, Unmapped(arg))
             IN /\ err = f.err
                /\ pc = "done" => bytes = f.bytes
    /\ (Over /\ call = "write")
          => LET f == FreshWrite(items, Unmapped(arg), Dirty, start)
             IN /\ err = f.err
                /\ pc = "done" => (bytes = f.bytes /\ offset = f.offset)
    /\ (Over /\ call = "read")
          => LET f == FreshRead(items, bytes0, start)
             IN /\ err = f.err
                /\ pc = "done" => (result = f.value /\ offset = f.offset)

\* C14: tuple and hidden-prefix codecs keep nothing between calls: after any
\* earlier calls on the same codec, successful or failed, an encode gives the
\* bytes, and a decode the value and offset, that a newly constructed codec
\* gives for the same input; the codec's size descriptor stays as
\* constructed, and a decode leaves the input bytes as they were.
C14_NoStateBetweenCalls ==
    /\ SameAsFresh
    /\ encoderSize = TupleDescriptor(items) /\ decoderSize = TupleDescriptor(items)
    /\ call = "read" => bytes = bytes0

C14_Witness ==
    /\ earlier = 1 /\ ~hidden /\ call = "read" /\ pc = "done" /\ ~roundTrip
    /\ items = <<U8, U8>>
    /\ bytes0 = <<1, 2, 3>> /\ bytes = <<1, 2, 3>> /\ start = 0
    /\ result = Tup(<<Num(1), Num(2)>>) /\ offset = 2

\* Each item's encoded size for its element, summed over the positions.
SumOfItemSizes ==
    PlainSum([i \in 1..Len(items) |-> getEncodedSize(ElemAt(value, i), items[i]).n])

\* Bytes the items wrote so far, one range of the trace each.
BytesWritten ==
    PlainSum([i \in 1..Len(trace) |-> trace[i][3] - trace[i][2]])

VariableSizeMatching ==
    /\ InWrite
    /\ ~encoderSize.fixed
    /\ LengthOf(value) = Len(items)

\* C15: for a variable-size tuple encoder and a value with as many elements
\* as there are items, the size getSizeFromValue reports, the sum of each
\* item's encoded size for its element, is the number of bytes by which
\* write advances the offset. A buffer of the reported size is therefore
\* filled exactly: no write goes past its end and, when write returns, no
\* byte of it is left unwritten.
C15_ReportedSizeIsWrittenSize ==
    /\ (VariableSizeMatching /\ call = "encode" /\ pc \in {"assert", "items", "done", "failed"})
          => /\ Len(bytes) = SumOfItemSizes
             /\ offset <= Len(bytes)
             /\ err # "RangeError"
             /\ pc = "done" => (offset = Len(bytes) /\ BytesWritten = Len(bytes))
    /\ (VariableSizeMatching /\ pc = "done")
          => /\ TupleSizeFromValue(items, value) = SizeOk(offset - start)
             /\ offset - start = SumOfItemSizes
             /\ BytesWritten = offset - start

C15_Witness ==
    /\ ~hidden /\ call = "encode" /\ pc = "done"
    /\ items = <<ShortU16, Utf8>>
    /\ value = Tup(<<Num(300), Str(Hello)>>)
    /\ TupleSizeFromValue(items, value) = SizeOk(7)
    /\ bytes = <<172, 2, 72, 101, 108, 108, 111>>
    /\ start = 0 /\ offset = 7

====
